---- MODULE Spec2Model ----
(***************************************************************************)
(* Ariamis: a thin layer over the DOM's element-construction API.          *)
(*                                                                         *)
(* The model has two parts.                                                *)
(*   - The argument disambiguator (distinguishAriamisArgs) works on        *)
(*     JavaScript values: undefined, null, a primitive, or a reference to  *)
(*     an object of the heap (an array or a plain object).  References are *)
(*     indices of the sequence heap, so "the very same reference" and "a   *)
(*     fresh object" are things a formula can tell apart.                  *)
(*   - The element builder (createElement), fragment and rawHtml issue     *)
(*     host (DOM) calls; the host tree is the sequence dom of nodes, a     *)
(*     node id being an index of it.                                       *)
(***************************************************************************)
EXTENDS Integers, Sequences, FiniteSets, TLC

VARIABLES
    heap,   \* the JavaScript heap: a sequence of arrays and plain objects
    call,   \* the most recent library call: its inputs and what it returned
    dom,    \* the host tree: a sequence of nodes
    caller, \* what the calling program did with the value it was handed
    pc      \* where the calling program is

vars == <<heap, call, dom, caller, pc>>

(***************************************************************************)
(* Bounds of the model.                                                    *)
(***************************************************************************)
\* most calls of the disambiguator in one behaviour
MaxCalls == 2
\* longest child list a caller passes
MaxChildren == 2
\* most events the caller dispatches on a built element
MaxEvents == 2
\* most top-level nodes of a markup string
MaxTop == 3
\* the caller changes at most MaxMutations objects it was handed
MaxMutations == 1

(***************************************************************************)
(* JavaScript values.                                                      *)
(***************************************************************************)
Undefined == [t |-> "undefined", ref |-> 0]
Null == [t |-> "null", ref |-> 0]
Prim == [t |-> "number", ref |-> 0]
Ref(r) == [t |-> "object", ref |-> r]

\* the members of a child list: a string or a node (Dom = Node | string)
Str(s) == [t |-> "string", s |-> s, n |-> 0]
NodeOf(n) == [t |-> "node", s |-> "", n |-> n]

\* the values a property map or a listener map holds
StrV(s) == [t |-> "string", s |-> s, opts |-> "none"]
FnV(f) == [t |-> "function", s |-> f, opts |-> "none"]
HwoV(f, o) == [t |-> "object", s |-> f, opts |-> o]
UndefV == [t |-> "undefined", s |-> "", opts |-> "none"]

\* heap objects: an array of items, or a plain object with its own enumerable
\* entries <<key, value>> in for-in order
Arr(items) == [kind |-> "array", items |-> items]
Obj(entries) == [kind |-> "object", items |-> entries]
EmptyObject == Obj(<<>>)
EmptyArray == Arr(<<>>)

\* Array.isArray(v)
IsArray(h, v) ==
    /\ v.t = "object"
    /\ v.ref \in 1..Len(h)
    /\ h[v.ref].kind = "array"

\* the i-th element of a destructured argument list: undefined past its end
ArgAt(args, i) == IF i <= Len(args) THEN args[i] ELSE Undefined

(***************************************************************************)
(* Faulty variants of the disambiguator, used to show that the properties  *)
(* below depend on the code.                                               *)
(***************************************************************************)
\* arg2 is taken for the listeners without the Array.isArray test
distinguishNoArrayTestOnArg2(h, arg1, arg2, arg3) ==
    LET h1 == h \o <<EmptyObject, EmptyObject, EmptyArray>>
        children1 == IF IsArray(h1, arg1) THEN arg1 ELSE Ref(Len(h) + 3)
        attr1 == IF ~IsArray(h1, arg1) /\ arg1 # Undefined THEN arg1 ELSE Ref(Len(h) + 1)
        listeners2 == IF arg2 # Undefined THEN arg2 ELSE Ref(Len(h) + 2)
        children3 == IF arg3 # Undefined THEN arg3 ELSE children1
    IN  [heap |-> h1, ret |-> <<attr1, listeners2, children3>>]

\* the first array wins: an array arg2 does not overwrite an array arg1
distinguishFirstArrayWins(h, arg1, arg2, arg3) ==
    LET h1 == h \o <<EmptyObject, EmptyObject, EmptyArray>>
        children1 == IF IsArray(h1, arg1) THEN arg1 ELSE Ref(Len(h) + 3)
        attr1 == IF ~IsArray(h1, arg1) /\ arg1 # Undefined THEN arg1 ELSE Ref(Len(h) + 1)
        children2 == IF IsArray(h1, arg2) /\ ~IsArray(h1, arg1) THEN arg2 ELSE children1
        listeners2 == IF ~IsArray(h1, arg2) /\ arg2 # Undefined THEN arg2 ELSE Ref(Len(h) + 2)
        children3 == IF arg3 # Undefined THEN arg3 ELSE children2
    IN  [heap |-> h1, ret |-> <<attr1, listeners2, children3>>]

\* arg3 is taken for the children only when it is an array
distinguishArg3OnlyIfArray(h, arg1, arg2, arg3) ==
    LET h1 == h \o <<EmptyObject, EmptyObject, EmptyArray>>
        children1 == IF IsArray(h1, arg1) THEN arg1 ELSE Ref(Len(h) + 3)
        attr1 == IF ~IsArray(h1, arg1) /\ arg1 # Undefined THEN arg1 ELSE Ref(Len(h) + 1)
        children2 == IF IsArray(h1, arg2) THEN arg2 ELSE children1
        listeners2 == IF ~IsArray(h1, arg2) /\ arg2 # Undefined THEN arg2 ELSE Ref(Len(h) + 2)
        children3 == IF IsArray(h1, arg3) THEN arg3 ELSE children2
    IN  [heap |-> h1, ret |-> <<attr1, listeners2, children3>>]

\* a non-array arg2 is taken for the properties when arg1 gave none
distinguishArg2FillsAttr(h, arg1, arg2, arg3) ==
    LET h1 == h \o <<EmptyObject, EmptyObject, EmptyArray>>
        children1 == IF IsArray(h1, arg1) THEN arg1 ELSE Ref(Len(h) + 3)
        attr1 == IF ~IsArray(h1, arg1) /\ arg1 # Undefined THEN arg1 ELSE Ref(Len(h) + 1)
        children2 == IF IsArray(h1, arg2) THEN arg2 ELSE children1
        isL == ~IsArray(h1, arg2) /\ arg2 # Undefined
        attr2 == IF isL /\ attr1 = Ref(Len(h) + 1) THEN arg2 ELSE attr1
        listeners2 == IF isL THEN arg2 ELSE Ref(Len(h) + 2)
        children3 == IF arg3 # Undefined THEN arg3 ELSE children2
    IN  [heap |-> h1, ret |-> <<attr2, listeners2, children3>>]

\* the children are handed back as a copy of the array: children = [...arg]
distinguishCopiesChildren(h, arg1, arg2, arg3) ==
    LET h1 == h \o <<EmptyObject, EmptyObject, EmptyArray>>
        children1 == IF IsArray(h1, arg1) THEN arg1 ELSE Ref(Len(h) + 3)
        attr1 == IF ~IsArray(h1, arg1) /\ arg1 # Undefined THEN arg1 ELSE Ref(Len(h) + 1)
        children2 == IF IsArray(h1, arg2) THEN arg2 ELSE children1
        listeners2 == IF ~IsArray(h1, arg2) /\ arg2 # Undefined THEN arg2 ELSE Ref(Len(h) + 2)
        children3 == IF arg3 # Undefined THEN arg3 ELSE children2
        copied == IsArray(h1, children3) /\ children3.ref <= Len(h)
        h2 == IF copied THEN h1 \o <<h1[children3.ref]>> ELSE h1
    IN  [heap |-> h2,
         ret |-> <<attr1, listeners2, IF copied THEN Ref(Len(h2)) ELSE children3>>]

\* faulty: the three empty defaults are made once and shared by all calls; they
\* live in the three cells after the caller's five objects
distinguishSharedDefaults(h, arg1, arg2, arg3) ==
    LET made == Len(h) >= 8
        base == IF made THEN 5 ELSE Len(h)
        h1 == IF made THEN h ELSE h \o <<EmptyObject, EmptyObject, EmptyArray>>
        attr0 == Ref(base + 1)
        listeners0 == Ref(base + 2)
        children0 == Ref(base + 3)
        children1 == IF IsArray(h1, arg1) THEN arg1 ELSE children0
        attr1 == IF ~IsArray(h1, arg1) /\ arg1 # Undefined THEN arg1 ELSE attr0
        children2 == IF IsArray(h1, arg2) THEN arg2 ELSE children1
        listeners2 == IF ~IsArray(h1, arg2) /\ arg2 # Undefined THEN arg2 ELSE listeners0
        children3 == IF arg3 # Undefined THEN arg3 ELSE children2
    IN  [heap |-> h1, ret |-> <<attr1, listeners2, children3>>]

\* faulty: null is taken for an omitted argument (!= in place of !==)
distinguishNullIsAbsent(h, arg1, arg2, arg3) ==
    LET attr0 == Ref(Len(h) + 1)
        listeners0 == Ref(Len(h) + 2)
        children0 == Ref(Len(h) + 3)
        h1 == h \o <<EmptyObject, EmptyObject, EmptyArray>>
        absent == {Undefined, Null}
        children1 == IF IsArray(h1, arg1) THEN arg1 ELSE children0
        attr1 == IF ~IsArray(h1, arg1) /\ arg1 \notin absent THEN arg1 ELSE attr0
        children2 == IF IsArray(h1, arg2) THEN arg2 ELSE children1
        listeners2 == IF ~IsArray(h1, arg2) /\ arg2 \notin absent THEN arg2 ELSE listeners0
        children3 == IF arg3 \notin absent THEN arg3 ELSE children2
    IN  [heap |-> h1, ret |-> <<attr1, listeners2, children3>>]

(***************************************************************************)
(* distinguishAriamisArgs([arg1, arg2, arg3]): [attr, listeners, children] *)
(* The three literals {} {} [] are allocated on every call, whether or not *)
(* they end up in the result.  Returns the heap after the call and the     *)
(* triple.                                                                 *)
(***************************************************************************)
distinguishAriamisArgs(h, arg1, arg2, arg3) ==
    LET attr0 == Ref(Len(h) + 1)
        listeners0 == Ref(Len(h) + 2)
        children0 == Ref(Len(h) + 3)
        h1 == h \o <<EmptyObject, EmptyObject, EmptyArray>>
        \* if (Array.isArray(arg1)) children = arg1 else if (arg1 !== undefined) attr = arg1
        children1 == IF IsArray(h1, arg1) THEN arg1 ELSE children0
        attr1 == IF ~IsArray(h1, arg1) /\ arg1 # Undefined THEN arg1 ELSE attr0
        \* if (Array.isArray(arg2)) children = arg2 else if (arg2 !== undefined) listeners = arg2
        children2 == IF IsArray(h1, arg2) THEN arg2 ELSE children1
        listeners2 == IF ~IsArray(h1, arg2) /\ arg2 # Undefined THEN arg2 ELSE listeners0
        \* if (arg3 !== undefined) children = arg3
        children3 == IF arg3 # Undefined THEN arg3 ELSE children2
    IN  [heap |-> h1, ret |-> <<attr1, listeners2, children3>>]

\* distinguishElemArgs([arg1, arg2, arg3]) delegates to distinguishAriamisArgs
distinguishElemArgs(h, args) ==
    distinguishAriamisArgs(h, ArgAt(args, 1), ArgAt(args, 2), ArgAt(args, 3))

(***************************************************************************)
(* The host tree.  A node is an element, a text node or a document         *)
(* fragment; children holds node ids.  A listener keeps, beside what the   *)
(* host stores (type, handler, once, removed), two counters for the        *)
(* properties: trig, the events of its type dispatched at the node since   *)
(* it was registered, and calls, the times its handler ran.                *)
(***************************************************************************)
ElementNode(tag) ==
    [kind |-> "element", tag |-> tag, text |-> "", props |-> <<>>,
     listeners |-> <<>>, children |-> <<>>]
TextNode(s) ==
    [kind |-> "text", tag |-> "#text", text |-> s, props |-> <<>>,
     listeners |-> <<>>, children |-> <<>>]
FragmentNode ==
    [kind |-> "fragment", tag |-> "#document-fragment", text |-> "", props |-> <<>>,
     listeners |-> <<>>, children |-> <<>>]

Range(f) == {f[i] : i \in DOMAIN f}

\* a function on 1..n as the sequence of its values
AsSeq(f) == SubSeq(f, 1, Len(f))

\* the parents of node n (a tree gives every node at most one)
ParentsOf(d, n) == {q \in 1..Len(d) : n \in Range(d[q].children)}

RECURSIVE Descendants(_, _)
\* n and every node below it
Descendants(d, n) == {n} \cup UNION {Descendants(d, c) : c \in Range(d[n].children)}

\* remove node n from its parent
Detach(d, n) ==
    AsSeq([i \in 1..Len(d) |-> [d[i] EXCEPT !.children = SelectSeq(@, LAMBDA c : c # n)]])

\* the host's "append node n to parent": a fragment gives up its children, in
\* order; any other node is moved from where it was
AppendOne(d, parent, n) ==
    IF d[n].kind = "fragment"
    THEN [d EXCEPT ![parent].children = @ \o d[n].children, ![n].children = <<>>]
    ELSE LET d1 == Detach(d, n)
         IN  [d1 EXCEPT ![parent].children = Append(@, n)]

RECURSIVE AppendAll(_, _, _)
AppendAll(d, parent, nodes) ==
    IF nodes = <<>> THEN d
    ELSE AppendAll(AppendOne(d, parent, Head(nodes)), parent, Tail(nodes))

RECURSIVE ToNodes(_, _, _)
\* strings become new text nodes, in order
ToNodes(d, items, acc) ==
    IF items = <<>> THEN [dom |-> d, nodes |-> acc]
    ELSE LET it == Head(items)
         IN  IF it.t = "string"
             THEN ToNodes(Append(d, TextNode(it.s)), Tail(items), Append(acc, Len(d) + 1))
             ELSE ToNodes(d, Tail(items), Append(acc, it.n))

\* parent.append(...items): one node is appended as it is; otherwise the nodes
\* are collected, in order, in a temporary fragment which is then appended
HostAppend(d, parent, items) ==
    LET c == ToNodes(d, items, <<>>)
        d1 == c.dom
    IN  IF Len(c.nodes) = 1
        THEN AppendOne(d1, parent, c.nodes[1])
        ELSE LET tmp == Len(d1) + 1
                 d2 == AppendAll(Append(d1, FragmentNode), tmp, c.nodes)
                 d3 == AppendOne(d2, parent, tmp)
             IN  SubSeq(d3, 1, Len(d1))

\* elem[key] = value
HostSetProp(d, e, key, value) ==
    LET ps == d[e].props
        at == {i \in 1..Len(ps) : ps[i][1] = key}
    IN  IF at = {}
        THEN [d EXCEPT ![e].props = Append(@, <<key, value>>)]
        ELSE [d EXCEPT ![e].props = AsSeq([i \in 1..Len(ps) |->
                                        IF i \in at THEN <<key, value>> ELSE ps[i]])]

\* elem.addEventListener(type, callback, options): nothing happens for a
\* callback that is not a function, nor for a listener already registered
HostAddEventListener(d, e, type, callback, options) ==
    IF callback.t # "function" THEN d
    ELSE IF \E i \in 1..Len(d[e].listeners) :
                /\ d[e].listeners[i].type = type
                /\ d[e].listeners[i].handler = callback.s
                /\ ~d[e].listeners[i].removed
         THEN d
         ELSE [d EXCEPT ![e].listeners =
                  Append(@, [type |-> type, handler |-> callback.s,
                             once |-> (options = "once"), removed |-> FALSE,
                             trig |-> 0, calls |-> 0])]

\* an event of the given type is dispatched at node e: every registered
\* listener of the type runs, and a once-listener is removed as it runs
HostDispatch(d, e, type) ==
    LET ls == d[e].listeners
        after(l) ==
            IF l.type # type THEN l
            ELSE [l EXCEPT !.trig = l.trig + 1,
                           !.calls = IF l.removed THEN l.calls ELSE l.calls + 1,
                           !.removed = l.removed \/ l.once]
    IN  [d EXCEPT ![e].listeners = AsSeq([i \in 1..Len(ls) |-> after(ls[i])])]

RECURSIVE ParseInto(_, _, _)
\* elem.innerHTML = markup: the parser's top-level nodes become the children of
\* e.  A markup string is given as the sequence of its top-level nodes, each a
\* text node or an element with a text content.
ParseInto(d, e, markup) ==
    IF markup = <<>> THEN d
    ELSE LET m == Head(markup)
             top == Len(d) + 1
             d1 == IF m.tag = "#text" THEN Append(d, TextNode(m.text))
                   ELSE IF m.text = "" THEN Append(d, ElementNode(m.tag))
                   ELSE Append(Append(d, [ElementNode(m.tag) EXCEPT !.children = <<top + 1>>]),
                               TextNode(m.text))
         IN  ParseInto([d1 EXCEPT ![e].children = Append(@, top)], e, Tail(markup))

(***************************************************************************)
(* createElement(tag, attrs, listeners, children)                          *)
(* The builder is modelled by the sequence of host calls it makes, which   *)
(* is then run on the tree.                                                *)
(***************************************************************************)
HostCall(op, k, v, o, items) == [op |-> op, k |-> k, v |-> v, o |-> o, items |-> items]

\* the own enumerable entries a for-in loop visits: none for null, undefined
\* or a primitive
Entries(h, v) ==
    IF v.t = "object" /\ h[v.ref].kind = "object" THEN h[v.ref].items ELSE <<>>

\* elem[key] = attrs[key]
AssignCall(key, value) == HostCall("set", key, value, "", <<>>)

\* faulty: className is always assigned, from attrs.className or ""
SetCallsAlwaysClassName(h, attrs) ==
    LET es == Entries(h, attrs)
    IN  <<HostCall("set", "className", StrV(""), "", <<>>)>>
            \o AsSeq([i \in 1..Len(es) |-> HostCall("set", es[i][1], es[i][2], "", <<>>)])

\* faulty: a key whose value is undefined is passed over
SetCallsSkipUndefined(h, attrs) ==
    LET es == SelectSeq(Entries(h, attrs), LAMBDA en : en[2].t # "undefined")
    IN  AsSeq([i \in 1..Len(es) |-> HostCall("set", es[i][1], es[i][2], "", <<>>)])

\* for (const key in attrs) elem[key] = attrs[key]
SetCalls(h, attrs) ==
    LET es == Entries(h, attrs)
    IN  AsSeq([i \in 1..Len(es) |-> AssignCall(es[i][1], es[i][2])])

\* listener.handler and listener.options of a listener that is not a function
HandlerOf(l) == IF l.t = "object" THEN FnV(l.s) ELSE UndefV
OptionsOf(l) == IF l.t = "object" THEN l.opts ELSE "undefined"

\* reading listener.handler throws a TypeError when listener is undefined
ListenerThrows(l) == l.t = "undefined"

\* faulty: the options of a {handler, options} entry are not passed on
ListenerCallDropsOptions(k, l) ==
    IF l.t = "function"
    THEN HostCall("addEventListener", k, l, "absent", <<>>)
    ELSE HostCall("addEventListener", k, HandlerOf(l), "absent", <<>>)

\* the addEventListener call made for one entry of the listener map
ListenerCall(k, l) ==
    IF l.t = "function"
    THEN HostCall("addEventListener", k, l, "absent", <<>>)
    ELSE HostCall("addEventListener", k, HandlerOf(l), OptionsOf(l), <<>>)

\* the position of the first entry whose listener throws, 0 if none does
FirstThrow(es) ==
    LET bad == {i \in 1..Len(es) : ListenerThrows(es[i][2])}
    IN  IF bad = {} THEN 0 ELSE CHOOSE i \in bad : \A j \in bad : i <= j

\* for (const k in listeners) ...: the calls made up to a throwing entry
ListenerCalls(h, listeners) ==
    LET es == Entries(h, listeners)
        stop == FirstThrow(es)
        last == IF stop = 0 THEN Len(es) ELSE stop - 1
    IN  AsSeq([i \in 1..last |-> ListenerCall(es[i][1], es[i][2])])

\* faulty: the children are put in one by one at the front (prepend)
AppendCallsReversed(h, children) ==
    IF IsArray(h, children)
    THEN LET items == h[children.ref].items
             n == Len(items)
             reversed == AsSeq([i \in 1..n |-> items[n + 1 - i]])
         IN  <<HostCall("append", "", UndefV, "", reversed)>>
    ELSE <<>>

\* elem.append(...children): spreading a value that is not an array throws
AppendCalls(h, children) ==
    IF IsArray(h, children)
    THEN <<HostCall("append", "", UndefV, "", h[children.ref].items)>>
    ELSE <<>>

\* what the builder's own code throws, "none" if it throws nothing
BuilderThrows(h, listeners, children) ==
    IF FirstThrow(Entries(h, listeners)) # 0 THEN "TypeError"
    ELSE IF ~IsArray(h, children) THEN "TypeError"
    ELSE "none"

\* what the host throws at a call, "none" if the call succeeds: the setter of
\* contentEditable throws a SyntaxError for a string that is not one of its
\* keywords
HostRaises(c) ==
    IF /\ c.op = "set"
       /\ c.k = "contentEditable"
       /\ c.v.t = "string"
       /\ c.v.s \notin {"true", "false", "plaintext-only", "inherit"}
    THEN "SyntaxError"
    ELSE "none"

\* the position of the first call at which the host throws, 0 if there is none
FirstRaise(log) ==
    LET bad == {i \in 1..Len(log) : HostRaises(log[i]) # "none"}
    IN  IF bad = {} THEN 0 ELSE CHOOSE i \in bad : \A j \in bad : i <= j

\* faulty: the listeners are registered before the properties are assigned
BuilderCallsListenersFirst(h, tag, attrs, listeners, children) ==
    LET all == <<HostCall("createElement", tag, UndefV, "", <<>>)>>
                   \o ListenerCalls(h, listeners)
                   \o SetCalls(h, attrs)
                   \o (IF FirstThrow(Entries(h, listeners)) # 0
                       THEN <<>> ELSE AppendCalls(h, children))
        bad == FirstRaise(all)
    IN  IF bad = 0 THEN all ELSE SubSeq(all, 1, bad)

\* the host calls of one createElement call, in order, up to the first one at
\* which the host or the builder throws
BuilderCalls(h, tag, attrs, listeners, children) ==
    LET all == <<HostCall("createElement", tag, UndefV, "", <<>>)>>
                   \o SetCalls(h, attrs)
                   \o ListenerCalls(h, listeners)
                   \o (IF FirstThrow(Entries(h, listeners)) # 0
                       THEN <<>> ELSE AppendCalls(h, children))
        bad == FirstRaise(all)
    IN  IF bad = 0 THEN all ELSE SubSeq(all, 1, bad)

\* one host call made on behalf of element e; a call at which the host throws
\* changes nothing
RunCall(d, e, c) ==
    CASE HostRaises(c) # "none" -> d
      [] c.op = "createElement" -> Append(d, ElementNode(c.k))
      [] c.op = "set" -> HostSetProp(d, e, c.k, c.v)
      [] c.op = "addEventListener" -> HostAddEventListener(d, e, c.k, c.v, c.o)
      [] c.op = "append" -> HostAppend(d, e, c.items)

RECURSIVE RunCalls(_, _, _)
RunCalls(d, e, log) ==
    IF log = <<>> THEN d ELSE RunCalls(RunCall(d, e, Head(log)), e, Tail(log))

\* faulty: the new element is also attached to the first node of the tree
createElementAttached(d, h, tag, attrs, listeners, children) ==
    LET e == Len(d) + 1
        log == BuilderCalls(h, tag, attrs, listeners, children)
        raise == FirstRaise(log)
        threw == IF raise # 0 THEN HostRaises(log[raise])
                 ELSE BuilderThrows(h, listeners, children)
    IN  [dom |-> AppendOne(RunCalls(d, e, log), 1, e), log |-> log, threw |-> threw,
         node |-> IF threw = "none" THEN e ELSE 0]

createElement(d, h, tag, attrs, listeners, children) ==
    LET e == Len(d) + 1
        log == BuilderCalls(h, tag, attrs, listeners, children)
        raise == FirstRaise(log)
        threw == IF raise # 0 THEN HostRaises(log[raise])
                 ELSE BuilderThrows(h, listeners, children)
    IN  [dom |-> RunCalls(d, e, log), log |-> log, threw |-> threw,
         node |-> IF threw = "none" THEN e ELSE 0]

\* elem(tag, ...elemArgs) = createElement(tag, ...distinguishElemArgs(elemArgs))
elem(d, h, tag, args) ==
    LET r == distinguishElemArgs(h, args)
        b == createElement(d, r.heap, tag, r.ret[1], r.ret[2], r.ret[3])
    IN  [dom |-> b.dom, heap |-> r.heap, ret |-> r.ret, log |-> b.log,
         threw |-> b.threw, node |-> b.node]

\* faulty: the tag function forwards the tag but none of its arguments
tagDropsArgs(d, h, t, args) == elem(d, h, t, <<>>)

\* tag(t)(...args) = elem(t, ...args)
tag(d, h, t, args) == elem(d, h, t, args)

\* faulty: a constructor that knows no third argument
createElemTwoArgs(d, h, t, arg1, arg2, arg3) ==
    LET h1 == h \o <<EmptyObject, EmptyObject, EmptyArray>>
        children1 == IF IsArray(h1, arg1) THEN arg1 ELSE Ref(Len(h) + 3)
        attr == IF ~IsArray(h1, arg1) /\ arg1 # Undefined THEN arg1 ELSE Ref(Len(h) + 1)
        children == IF IsArray(h1, arg2) THEN arg2 ELSE children1
        listeners == IF ~IsArray(h1, arg2) /\ arg2 # Undefined THEN arg2 ELSE Ref(Len(h) + 2)
        e == Len(d) + 1
        log == <<HostCall("createElement", t, UndefV, "", <<>>)>>
                   \o SetCalls(h1, attr)
                   \o ListenerCalls(h1, listeners)
                   \o AppendCalls(h1, children)
    IN  [dom |-> RunCalls(d, e, log), heap |-> h1, ret |-> <<attr, listeners, children>>,
         log |-> log, threw |-> "none", node |-> e]

\* createElem(tag, arg1?, arg2?, arg3?) of dom.ts: the arguments are told apart
\* and the element is built in one function
createElem(d, h, t, arg1, arg2, arg3) ==
    LET \* let attr = {}; let listeners = {}; let children = []
        h1 == h \o <<EmptyObject, EmptyObject, EmptyArray>>
        attr0 == Ref(Len(h) + 1)
        listeners0 == Ref(Len(h) + 2)
        children0 == Ref(Len(h) + 3)
        \* the three tests on arg1, arg2, arg3
        children1 == IF IsArray(h1, arg1) THEN arg1 ELSE children0
        attr == IF IsArray(h1, arg1) THEN attr0
                ELSE IF arg1 # Undefined THEN arg1 ELSE attr0
        children2 == IF IsArray(h1, arg2) THEN arg2 ELSE children1
        listeners == IF IsArray(h1, arg2) THEN listeners0
                     ELSE IF arg2 # Undefined THEN arg2 ELSE listeners0
        children == IF arg3 # Undefined THEN arg3 ELSE children2
        \* document.createElement, the two loops, elem.append(...children)
        e == Len(d) + 1
        stop == FirstThrow(Entries(h1, listeners))
        all == <<HostCall("createElement", t, UndefV, "", <<>>)>>
                   \o SetCalls(h1, attr)
                   \o ListenerCalls(h1, listeners)
                   \o (IF stop # 0 THEN <<>> ELSE AppendCalls(h1, children))
        raise == FirstRaise(all)
        log == IF raise = 0 THEN all ELSE SubSeq(all, 1, raise)
        threw == IF raise # 0 THEN HostRaises(all[raise])
                 ELSE IF stop # 0 \/ ~IsArray(h1, children) THEN "TypeError"
                 ELSE "none"
    IN  [dom |-> RunCalls(d, e, log), heap |-> h1, ret |-> <<attr, listeners, children>>,
         log |-> log, threw |-> threw, node |-> IF threw = "none" THEN e ELSE 0]

\* faulty: the container is a div element, not a document fragment
fragmentIsDiv(d, h, children) ==
    LET f == Len(d) + 1
    IN  [dom |-> HostAppend(Append(d, ElementNode("div")), f, h[children.ref].items),
         node |-> f]

\* fragment(children): a new document fragment with the children appended
fragment(d, h, children) ==
    LET f == Len(d) + 1
    IN  [dom |-> HostAppend(Append(d, FragmentNode), f, h[children.ref].items),
         node |-> f]

\* faulty: the node is put in front of the fragment's children
RawHtmlStepPrepends(d, div, frag, i) ==
    LET n == d[div].children[i + 1]
        d1 == Detach(d, n)
    IN  [d1 EXCEPT ![frag].children = <<n>> \o @]

\* one turn of the loop body: frag.append(elem.childNodes[i])
RawHtmlStep(d, div, frag, i) ==
    HostAppend(d, frag, <<NodeOf(d[div].children[i + 1])>>)

RECURSIVE RawHtmlLoop(_, _, _, _)
\* for (let i = 0; i < elem.childNodes.length; i++) frag.append(elem.childNodes[i])
\* elem.childNodes is live: it is read again at every test and every index
RawHtmlLoop(d, div, frag, i) ==
    IF i < Len(d[div].children)
    THEN RawHtmlLoop(RawHtmlStep(d, div, frag, i), div, frag, i + 1)
    ELSE d

\* rawHtml(html)
rawHtml(d, markup) ==
    LET div == Len(d) + 1
        d1 == ParseInto(Append(d, ElementNode("div")), div, markup)
        frag == Len(d1) + 1
        d2 == Append(d1, FragmentNode)
    IN  [dom |-> RawHtmlLoop(d2, div, frag, 0), node |-> frag,
         parsed |-> d1[div].children]

(***************************************************************************)
(* The calling program of the disambiguator specification: it holds a few  *)
(* objects and calls distinguishElemArgs with any arguments.               *)
(***************************************************************************)
\* the caller's objects: ["a"], ["b"], {id: "x"}, {click: f1}, {}
CallerHeap ==
    << Arr(<<Str("a")>>),
       Arr(<<Str("b")>>),
       Obj(<< <<"id", StrV("x")>> >>),
       Obj(<< <<"click", FnV("f1")>> >>),
       EmptyObject >>

\* every value the caller can pass: undefined, null, a number, any heap object
Values(h) == {Undefined, Null, Prim} \cup {Ref(r) : r \in 1..Len(h)}

\* the record of a call: the function, its inputs (tag, args, the heap and the
\* tree before it), and its outputs (the heap after it, the resolved triple, the
\* node returned, the host calls made, what was thrown, the nodes parsed)
NoCall ==
    [fn |-> "none", tag |-> "", args |-> <<>>, pre |-> <<>>, post |-> <<>>,
     ret |-> <<>>, n |-> 0, before |-> <<>>, node |-> 0, log |-> <<>>,
     threw |-> "none", parsed |-> <<>>, i |-> 0]

NoCaller == [events |-> 0, parent |-> 0, beforeAppend |-> <<>>, mutations |-> 0]

\* the caller changes object r in place: it pushes a string onto an array, or
\* sets one more key of a map
Mutated(h, r) ==
    [h EXCEPT ![r].items =
        Append(@, IF h[r].kind = "array" THEN Str("themed-paragraph")
                  ELSE <<"themed", StrV("y")>>)]

InitArgs ==
    /\ heap = CallerHeap
    /\ call = NoCall
    /\ dom = <<>>
    /\ caller = NoCaller
    /\ pc = "args"

CallDistinguish ==
    /\ pc = "args"
    /\ call.fn = "none"
    /\ call.n < MaxCalls
    /\ \E a1 \in Values(heap), a2 \in Values(heap), a3 \in Values(heap), len \in 0..3 :
        LET args == SubSeq(<<a1, a2, a3>>, 1, len)
        IN  \E r \in {distinguishElemArgs(heap, args)} :
            /\ heap' = r.heap
            /\ call' = [NoCall EXCEPT !.fn = "distinguishElemArgs", !.args = args,
                            !.pre = heap, !.post = r.heap, !.ret = r.ret,
                            !.n = call.n + 1]
    /\ UNCHANGED <<dom, caller, pc>>

\* the caller drops the triple it was handed and goes on
DropResult ==
    /\ pc = "args"
    /\ call.fn # "none"
    /\ call' = [NoCall EXCEPT !.n = call.n]
    /\ UNCHANGED <<heap, dom, caller, pc>>

\* the caller changes, in place, an object of the triple it was handed
Mutate ==
    /\ pc = "args"
    /\ call.fn # "none"
    /\ caller.mutations < MaxMutations
    /\ \E i \in 1..3 :
        /\ call.ret[i].t = "object"
        /\ heap' = Mutated(heap, call.ret[i].ref)
    /\ caller' = [caller EXCEPT !.mutations = @ + 1]
    /\ UNCHANGED <<call, dom, pc>>

NextArgs == CallDistinguish \/ DropResult \/ Mutate

SpecArgs == InitArgs /\ [][NextArgs]_vars

(***************************************************************************)
(* The calling program of the builder specification.  A page holds a small *)
(* tree; the program makes one library call with literal arguments, and    *)
(* then uses the node it was handed: it dispatches events at it and        *)
(* appends it to an element of the page.                                   *)
(***************************************************************************)
\* the page: <body><span></span></body> and a fragment holding an <em>
PageDom ==
    << [ElementNode("body") EXCEPT !.children = <<2>>],
       ElementNode("span"),
       [FragmentNode EXCEPT !.children = <<4>>],
       ElementNode("em") >>

Tags == {"div", "p"}
EventTypes == {"click", "input"}

\* property maps: {}, {id: "x"}, {id: "x", title: "t"}, {hidden: undefined},
\* {contentEditable: "bogus", id: "x"}
PropMaps ==
    { <<>>,
      << <<"id", StrV("x")>> >>,
      << <<"id", StrV("x")>>, <<"title", StrV("t")>> >>,
      << <<"hidden", UndefV>> >>,
      << <<"contentEditable", StrV("bogus")>>, <<"id", StrV("x")>> >> }

\* listener maps: {}, {click: f1}, {click: f1, input: f2},
\* {click: {handler: f1, options: {once: true}}}, {click: {handler: f1}},
\* {input: f2, click: undefined}
ListenerMaps ==
    { <<>>,
      << <<"click", FnV("f1")>> >>,
      << <<"click", FnV("f1")>>, <<"input", FnV("f2")>> >>,
      << <<"click", HwoV("f1", "once")>> >>,
      << <<"click", HwoV("f1", "undefined")>> >>,
      << <<"input", FnV("f2")>>, <<"click", UndefV>> >> }

SeqsUpTo(S, n) == UNION {[1..k -> S] : k \in 0..n}

\* child lists over the string "hi" and the nodes of the page below body
ChildItems(d) == {Str("hi")} \cup {NodeOf(n) : n \in 2..Len(d)}
ChildLists(d) == SeqsUpTo(ChildItems(d), MaxChildren)

\* markup strings, by their top-level nodes: <p>x</p>, <p>y</p>, bare text
Markups ==
    SeqsUpTo({[tag |-> "p", text |-> "x"], [tag |-> "p", text |-> "y"],
              [tag |-> "#text", text |-> "t"]}, MaxTop)

\* the six call shapes of elem: which of properties, listeners, children are passed
Shapes == {"", "c", "p", "pc", "pl", "plc"}

\* the argument literals of a call of the given shape
Literals(shape, p, l, c) ==
    CASE shape = "" -> <<>>
      [] shape = "c" -> <<Arr(c)>>
      [] shape = "p" -> <<Obj(p)>>
      [] shape = "pc" -> <<Obj(p), Arr(c)>>
      [] shape = "pl" -> <<Obj(p), Obj(l)>>
      [] shape = "plc" -> <<Obj(p), Obj(l), Arr(c)>>

Init ==
    /\ heap = <<>>
    /\ call = NoCall
    /\ dom = PageDom
    /\ caller = NoCaller
    /\ pc = "idle"

\* elem(tag, ...args) with literal arguments of one of the six shapes
CallElem ==
    /\ pc = "idle"
    /\ \E t \in Tags, shape \in Shapes, p \in PropMaps, l \in ListenerMaps, c \in ChildLists(dom) :
        /\ (shape \in {"", "c"}) => p = <<>>
        /\ (shape \in {"", "c", "p", "pc"}) => l = <<>>
        /\ (shape \in {"", "p", "pl"}) => c = <<>>
        /\ LET lits == Literals(shape, p, l, c)
               args == AsSeq([i \in 1..Len(lits) |-> Ref(i)])
           IN  \E r \in {elem(dom, lits, t, args)} :
               /\ heap' = r.heap
               /\ dom' = r.dom
               /\ call' = [NoCall EXCEPT !.fn = "elem", !.tag = t, !.args = args,
                               !.pre = lits, !.post = r.heap, !.ret = r.ret,
                               !.before = dom, !.node = r.node, !.log = r.log,
                               !.threw = r.threw]
    /\ pc' = "built"
    /\ UNCHANGED caller

\* const f = tag(t); f(...args) with literal arguments of one of the six shapes
CallTag ==
    /\ pc = "idle"
    /\ \E t \in Tags, shape \in Shapes, p \in PropMaps, l \in ListenerMaps, c \in ChildLists(dom) :
        /\ (shape \in {"", "c"}) => p = <<>>
        /\ (shape \in {"", "c", "p", "pc"}) => l = <<>>
        /\ (shape \in {"", "p", "pl"}) => c = <<>>
        /\ LET lits == Literals(shape, p, l, c)
               args == AsSeq([i \in 1..Len(lits) |-> Ref(i)])
           IN  \E r \in {tag(dom, lits, t, args)} :
               /\ heap' = r.heap
               /\ dom' = r.dom
               /\ call' = [NoCall EXCEPT !.fn = "tag", !.tag = t, !.args = args,
                               !.pre = lits, !.post = r.heap, !.ret = r.ret,
                               !.before = dom, !.node = r.node, !.log = r.log,
                               !.threw = r.threw]
    /\ pc' = "built"
    /\ UNCHANGED caller

\* the objects of a caller of the constructor of dom.ts: [span, "hi"], ["a"],
\* {id: "x", title: "t"}, {click: f1, input: f2},
\* {click: {handler: f1, options: {once: true}}}
ArgObjects ==
    << Arr(<<NodeOf(2), Str("hi")>>),
       Arr(<<Str("a")>>),
       Obj(<< <<"id", StrV("x")>>, <<"title", StrV("t")>> >>),
       Obj(<< <<"click", FnV("f1")>>, <<"input", FnV("f2")>> >>),
       Obj(<< <<"click", HwoV("f1", "once")>> >>) >>

\* createElem(tag, arg1?, arg2?, arg3?) of dom.ts, each argument left out, an
\* array or an object that is not an array
CallCreateElem ==
    /\ pc = "idle"
    /\ \E t \in Tags, len \in 0..3 :
        \E a1, a2, a3 \in {Undefined} \cup {Ref(r) : r \in 1..Len(ArgObjects)} :
            LET args == SubSeq(<<a1, a2, a3>>, 1, len)
            IN  \E r \in {createElem(dom, ArgObjects, t, ArgAt(args, 1), ArgAt(args, 2),
                                     ArgAt(args, 3))} :
                /\ heap' = r.heap
                /\ dom' = r.dom
                /\ call' = [NoCall EXCEPT !.fn = "createElem", !.tag = t, !.args = args,
                                !.pre = ArgObjects, !.post = r.heap, !.ret = r.ret,
                                !.before = dom, !.node = r.node, !.log = r.log,
                                !.threw = r.threw]
    /\ pc' = "built"
    /\ UNCHANGED caller

\* fragment(children) with a literal child list
CallFragment ==
    /\ pc = "idle"
    /\ \E c \in ChildLists(dom) :
        LET lits == <<Arr(c)>>
        IN  \E r \in {fragment(dom, lits, Ref(1))} :
            /\ heap' = lits
            /\ dom' = r.dom
            /\ call' = [NoCall EXCEPT !.fn = "fragment", !.args = <<Ref(1)>>,
                            !.pre = lits, !.post = lits, !.before = dom,
                            !.node = r.node]
    /\ pc' = "built"
    /\ UNCHANGED caller

\* rawHtml(html)
CallRawHtml ==
    /\ pc = "idle"
    /\ \E m \in Markups :
        \E r \in {rawHtml(dom, m)} :
            /\ dom' = r.dom
            /\ call' = [NoCall EXCEPT !.fn = "rawHtml", !.before = dom,
                            !.node = r.node, !.parsed = r.parsed]
    /\ pc' = "built"
    /\ UNCHANGED <<heap, caller>>

\* the caller dispatches an event at the element it was handed
Dispatch ==
    /\ pc = "built"
    /\ call.fn \in {"elem", "tag"}
    /\ call.node # 0
    /\ caller.events < MaxEvents
    /\ \E type \in EventTypes :
        dom' = HostDispatch(dom, call.node, type)
    /\ caller' = [caller EXCEPT !.events = @ + 1]
    /\ UNCHANGED <<heap, call, pc>>

\* the caller appends the node it was handed to an element of the page; the
\* host refuses a parent that lies inside the node
AppendTo ==
    /\ pc = "built"
    /\ call.node # 0
    /\ caller.parent = 0
    /\ \E parent \in 1..Len(call.before) :
        /\ dom[parent].kind = "element"
        /\ parent \notin Descendants(dom, call.node)
        /\ dom' = HostAppend(dom, parent, <<NodeOf(call.node)>>)
        /\ caller' = [caller EXCEPT !.parent = parent, !.beforeAppend = dom]
    /\ UNCHANGED <<heap, call, pc>>

Next == CallElem \/ CallTag \/ CallCreateElem \/ CallFragment \/ CallRawHtml \/ Dispatch \/ AppendTo

Spec == Init /\ [][Next]_vars

(***************************************************************************)
(* rawHtml(html), one turn of its loop at a time.  The call runs to its    *)
(* end without interruption, so each of its steps is taken when it can be. *)
(***************************************************************************)
InitLoop ==
    /\ heap = <<>>
    /\ call = NoCall
    /\ dom = PageDom
    /\ caller = NoCaller
    /\ pc = "html"

\* the div the markup is parsed into
LoopDiv == Len(call.before) + 1

\* elem.innerHTML = html; const frag = document.createDocumentFragment(); i = 0
RawHtmlStart ==
    /\ pc = "html"
    /\ \E m \in Markups :
        \E d1 \in {ParseInto(Append(dom, ElementNode("div")), Len(dom) + 1, m)} :
            /\ dom' = Append(d1, FragmentNode)
            /\ call' = [NoCall EXCEPT !.fn = "rawHtml", !.before = dom,
                            !.node = Len(d1) + 1,
                            !.parsed = d1[Len(dom) + 1].children]
    /\ pc' = "loop"
    /\ UNCHANGED <<heap, caller>>

\* i < elem.childNodes.length: frag.append(elem.childNodes[i]); i++
RawHtmlIterate ==
    /\ pc = "loop"
    /\ call.i < Len(dom[LoopDiv].children)
    /\ dom' = RawHtmlStep(dom, LoopDiv, call.node, call.i)
    /\ call' = [call EXCEPT !.i = @ + 1]
    /\ UNCHANGED <<heap, caller, pc>>

\* i >= elem.childNodes.length: return frag
RawHtmlReturn ==
    /\ pc = "loop"
    /\ ~(call.i < Len(dom[LoopDiv].children))
    /\ pc' = "returned"
    /\ UNCHANGED <<heap, call, dom, caller>>

NextLoop == RawHtmlStart \/ RawHtmlIterate \/ RawHtmlReturn

SpecLoop ==
    InitLoop /\ [][NextLoop]_vars /\ WF_vars(RawHtmlIterate) /\ WF_vars(RawHtmlReturn)

(***************************************************************************)
(* Properties of the disambiguator, stated on the most recent call.        *)
(***************************************************************************)
Called == call.fn = "distinguishElemArgs"
Arg1 == ArgAt(call.args, 1)
Arg2 == ArgAt(call.args, 2)
Arg3 == ArgAt(call.args, 3)
RetAttr == call.ret[1]
RetListeners == call.ret[2]
RetChildren == call.ret[3]

\* v is an array the caller passed
IsArr(v) == IsArray(call.pre, v)
\* v is a non-array object the caller passed
IsMap(v) == v.t = "object" /\ v.ref \in 1..Len(call.pre) /\ ~IsArray(call.pre, v)
\* v is an object the call allocated, and it is the empty object e
IsFresh(v, e) ==
    /\ v.t = "object"
    /\ v.ref \in (Len(call.pre) + 1)..Len(call.post)
    /\ call.post[v.ref] = e
DefaultAttr == IsFresh(RetAttr, EmptyObject)
DefaultListeners == IsFresh(RetListeners, EmptyObject)
DefaultChildren == IsFresh(RetChildren, EmptyArray)

\* C1: for each of the six supported call shapes -- (), (children), (properties),
\* (properties, children), (properties, listeners), (properties, listeners,
\* children) -- every supplied argument is in the slot its shape names and every
\* omitted slot holds a fresh empty map or a fresh empty list.
C1_SupportedShapes ==
    Called =>
        /\ (Arg1 = Undefined /\ Arg2 = Undefined /\ Arg3 = Undefined)
            => (DefaultAttr /\ DefaultListeners /\ DefaultChildren)
        /\ (IsArr(Arg1) /\ Arg2 = Undefined /\ Arg3 = Undefined)
            => (DefaultAttr /\ DefaultListeners /\ RetChildren = Arg1)
        /\ (IsMap(Arg1) /\ Arg2 = Undefined /\ Arg3 = Undefined)
            => (RetAttr = Arg1 /\ DefaultListeners /\ DefaultChildren)
        /\ (IsMap(Arg1) /\ IsArr(Arg2) /\ Arg3 = Undefined)
            => (RetAttr = Arg1 /\ DefaultListeners /\ RetChildren = Arg2)
        /\ (IsMap(Arg1) /\ IsMap(Arg2) /\ Arg3 = Undefined)
            => (RetAttr = Arg1 /\ RetListeners = Arg2 /\ DefaultChildren)
        /\ (IsMap(Arg1) /\ IsMap(Arg2) /\ IsArr(Arg3))
            => (RetAttr = Arg1 /\ RetListeners = Arg2 /\ RetChildren = Arg3)

\* a call of shape (properties, children) has put {id: "x"} and ["a"] in their slots
C1_Witness ==
    /\ Called
    /\ call.args = <<Ref(3), Ref(1)>>
    /\ call.ret[1] = Ref(3) /\ DefaultListeners /\ call.ret[3] = Ref(1)

\* C3: when arg1 and arg2 are both arrays and arg3 is absent, the children are
\* arg2 and the properties and listeners are the empty defaults.
C3_SecondArrayOverwrites ==
    (Called /\ IsArr(Arg1) /\ IsArr(Arg2) /\ Arg3 = Undefined)
        => (RetChildren = Arg2 /\ DefaultAttr /\ DefaultListeners)

\* the call (["a"], ["b"]) has returned the children ["b"]
C3_Witness ==
    /\ Called
    /\ call.args = <<Ref(1), Ref(2)>>
    /\ RetChildren.t = "object"
    /\ call.post[RetChildren.ref] = Arr(<<Str("b")>>)

\* C4: whenever arg3 is present, the children are arg3, whatever the shapes of
\* arg1, arg2 and arg3.
C4_Arg3AlwaysChildren ==
    (Called /\ Arg3 # Undefined) => RetChildren = Arg3

\* arrays were passed as arg1 and arg2 and a non-array as arg3: arg3 is the children
C4_Witness ==
    /\ Called
    /\ IsArr(Arg1) /\ IsArr(Arg2)
    /\ Arg3 # Undefined /\ ~IsArr(Arg3)
    /\ RetChildren = Arg3

\* the listeners slot holds a value of the caller, not the call's own default
ListenersSupplied == ~IsFresh(RetListeners, EmptyObject)

C10_NoMutationNoCopy ==
    Called =>
        /\ Len(call.post) >= Len(call.pre)
        /\ \A r \in 1..Len(call.pre) : call.post[r] = call.pre[r]
        /\ DefaultAttr \/ (RetAttr # Undefined /\ RetAttr \in {Arg1, Arg2, Arg3})
        /\ DefaultListeners \/ (RetListeners # Undefined /\ RetListeners \in {Arg1, Arg2, Arg3})
        /\ DefaultChildren \/ (RetChildren # Undefined /\ RetChildren \in {Arg1, Arg2, Arg3})

\* all three arguments were caller objects and came back as the same references
C10_Witness ==
    /\ Called
    /\ call.args = <<Ref(3), Ref(4), Ref(1)>>
    /\ call.ret = call.args
    /\ call.post[1] = Arr(<<Str("a")>>)

\* C13: for every arg1, arg2, arg3 among absent, an array, a non-array object,
\* null and a number, the disambiguator throws nothing and returns a triple in
\* which a present arg1 that is not an array is the properties and a present
\* arg2 that is not an array is the listeners.
C13_NoErrorAnyInput ==
    Called =>
        /\ call.threw = "none"
        /\ Len(call.ret) = 3
        /\ (Arg1 # Undefined /\ ~IsArr(Arg1)) => RetAttr = Arg1
        /\ (Arg2 # Undefined /\ ~IsArr(Arg2)) => RetListeners = Arg2

\* the disambiguator was called with (null, a number, null)
C13_Witness ==
    /\ Called
    /\ call.args = <<Null, Prim, Null>>
    /\ call.ret = <<Null, Prim, Null>>

\* slot i of the triple is a default: the arguments leave it open
Omitted(i) ==
    CASE i = 1 -> Arg1 = Undefined \/ IsArr(Arg1)
      [] i = 2 -> Arg2 = Undefined \/ IsArr(Arg2)
      [] i = 3 -> Arg3 = Undefined /\ ~IsArr(Arg1) /\ ~IsArr(Arg2)
\* the references the caller could hold before the call
HeldBefore == {Ref(r) : r \in 1..Len(call.pre)}

\* C17: the calls share no mutable state.  Whatever the caller has done to the
\* objects earlier calls handed it, every slot a call leaves open is filled
\* with an object made by that call, which is empty when handed out and is
\* none of the objects that existed before, so that changing it changes no
\* result of an earlier call and changing those changes none of a later one.
C17_NoSharedState ==
    Called =>
        /\ Omitted(1) => (DefaultAttr /\ RetAttr \notin HeldBefore)
        /\ Omitted(2) => (DefaultListeners /\ RetListeners \notin HeldBefore)
        /\ Omitted(3) => (DefaultChildren /\ RetChildren \notin HeldBefore)
        /\ Cardinality({call.ret[i] : i \in {j \in 1..3 : Omitted(j)}})
            = Cardinality({j \in 1..3 : Omitted(j)})
        /\ \A r \in 1..Len(call.pre) : call.post[r] = call.pre[r]

\* the caller has added a key to the properties map the first call made for
\* it, and a second call with nothing but a tag has been made
C17_Witness ==
    /\ Called
    /\ call.n = 2
    /\ call.args = <<>>
    /\ caller.mutations = 1
    /\ call.pre[6] = Obj(<< <<"themed", StrV("y")>> >>)
    /\ heap[RetAttr.ref] = EmptyObject

(***************************************************************************)
(* Properties of the builder, of fragment and of rawHtml, stated on the    *)
(* most recent call and the tree as it is now.                             *)
(***************************************************************************)
\* the resolved arguments of the call, by content
PropsGiven == Entries(call.post, call.ret[1])
ListenersGiven == Entries(call.post, call.ret[2])
ChildrenGiven == IF IsArray(call.post, call.ret[3]) THEN call.post[call.ret[3].ref].items ELSE <<>>

ElemReturned == call.fn = "elem" /\ call.node # 0
\* elem(tag, properties, listeners, children) was called and returned
FullCall == ElemReturned /\ Len(call.args) = 3
BareHandlers == \A i \in 1..Len(ListenersGiven) : ListenersGiven[i][2].t = "function"

\* the node has exactly the given children in the given order: each string is
\* its own new text node with that content, each node is there itself
ChildrenMatch(node, items) ==
    LET cs == dom[node].children
    IN  /\ Len(cs) = Len(items)
        /\ \A i \in 1..Len(cs) :
            IF items[i].t = "string"
            THEN /\ cs[i] > Len(call.before)
                 /\ dom[cs[i]].kind = "text"
                 /\ dom[cs[i]].text = items[i].s
            ELSE cs[i] = items[i].n
        /\ \A i, j \in 1..Len(cs) : i # j => cs[i] # cs[j]

\* no node occurs twice in the child list and none is a document fragment
PlainChildList(items) ==
    \A i \in 1..Len(items) :
        items[i].t = "node" =>
            /\ call.before[items[i].n].kind # "fragment"
            /\ \A j \in 1..Len(items) : j # i => items[j] # items[i]

\* the element has the tag, every property of the map, and one listener per
\* entry of the map, which has run at every event of its type
TagPropsListeners ==
    LET e == dom[call.node]
    IN  /\ e.kind = "element"
        /\ e.tag = call.tag
        /\ \A i \in 1..Len(PropsGiven) : PropsGiven[i] \in Range(e.props)
        /\ Len(e.listeners) = Len(ListenersGiven)
        /\ \A i \in 1..Len(ListenersGiven) :
            LET mine == {j \in 1..Len(e.listeners) : e.listeners[j].type = ListenersGiven[i][1]}
            IN  /\ Cardinality(mine) = 1
                /\ \A j \in mine :
                    /\ e.listeners[j].handler = ListenersGiven[i][2].s
                    /\ ~e.listeners[j].removed
                    /\ e.listeners[j].calls = e.listeners[j].trig

\* C5 as stated: elem(tag, properties, listeners, children) with bare handlers
\* returns an element with the tag, the properties, one listener per entry
\* that runs the entry's handler when the event fires, and exactly the given
\* children in order, for any child list.
C5_Original ==
    (FullCall /\ BareHandlers) =>
        (TagPropsListeners /\ ChildrenMatch(call.node, ChildrenGiven))

\* C5 as amended: the same, the children being exactly the given ones when no
\* node occurs twice in the child list and none of them is a document fragment.
C5_ElemBuildsWhatIsGiven ==
    (FullCall /\ BareHandlers) =>
        /\ TagPropsListeners
        /\ PlainChildList(ChildrenGiven) => ChildrenMatch(call.node, ChildrenGiven)

\* elem("div", {id: "x"}, {click: f1}, ["hi"]) has returned, and click has fired once
C5_Witness ==
    /\ FullCall
    /\ call.tag = "div"
    /\ PropsGiven = << <<"id", StrV("x")>> >>
    /\ ListenersGiven = << <<"click", FnV("f1")>> >>
    /\ ChildrenGiven = <<Str("hi")>>
    /\ dom[call.node].props = << <<"id", StrV("x")>> >>
    /\ Len(dom[call.node].children) = 1
    /\ dom[dom[call.node].children[1]].text = "hi"
    /\ dom[call.node].listeners[1].calls = 1

\* C6: elem(tag) returns an element of the tag with no property assigned, no
\* listener registered and no child: the host calls are createElement and one
\* append of nothing.
C6_ElemWithTagOnly ==
    (call.fn = "elem" /\ Len(call.args) = 0) =>
        /\ call.threw = "none"
        /\ call.node = Len(call.before) + 1
        /\ call.log = <<HostCall("createElement", call.tag, UndefV, "", <<>>),
                        HostCall("append", "", UndefV, "", <<>>)>>
        /\ Len(dom) = Len(call.before) + 1
        /\ dom[call.node] = ElementNode(call.tag)

\* elem("p") has returned a bare p element
C6_Witness ==
    /\ call.fn = "elem"
    /\ call.args = <<>>
    /\ call.tag = "p"
    /\ dom[call.node].tag = "p"
    /\ dom[call.node].children = <<>>

\* C7: an entry {handler: fn, options: o} makes the builder register fn for the
\* event name with exactly the options o; with {once: true} fn has run exactly
\* once however often (at least once) the event was triggered, twice included.
C7_HandlerWithOptions ==
    ElemReturned =>
        \A i \in 1..Len(ListenersGiven) :
            LET k == ListenersGiven[i][1]
                l == ListenersGiven[i][2]
                regs == {j \in 1..Len(call.log) :
                            call.log[j].op = "addEventListener" /\ call.log[j].k = k}
                mine == {j \in 1..Len(dom[call.node].listeners) :
                            dom[call.node].listeners[j].type = k}
            IN  l.t = "object" =>
                    /\ Cardinality(regs) = 1
                    /\ \A j \in regs :
                        call.log[j] = HostCall("addEventListener", k, FnV(l.s), l.opts, <<>>)
                    /\ Cardinality(mine) = 1
                    /\ \A j \in mine :
                        LET reg == dom[call.node].listeners[j]
                        IN  /\ reg.handler = l.s
                            /\ reg.once = (l.opts = "once")
                            /\ reg.calls = IF l.opts = "once"
                                           THEN (IF reg.trig = 0 THEN 0 ELSE 1)
                                           ELSE reg.trig

\* click was triggered twice on an element built with
\* {click: {handler: f1, options: {once: true}}}, and f1 has run once
C7_Witness ==
    /\ ElemReturned
    /\ ListenersGiven = << <<"click", HwoV("f1", "once")>> >>
    /\ dom[call.node].listeners[1].trig = 2
    /\ dom[call.node].listeners[1].calls = 1

\* the child list passed to fragment
ChildrenOfFragmentCall == call.pre[1].items

\* the fragment handed back has not been appended anywhere yet
FragmentHeld == call.fn = "fragment" /\ caller.parent = 0
\* the fragment handed back has been appended to caller.parent
FragmentAppended == call.fn = "fragment" /\ caller.parent # 0

\* appending the fragment has moved its children to the end of the parent, in
\* order; the fragment is empty and no node was created
ChildrenMoved ==
    LET b == caller.beforeAppend
        moved == b[call.node].children
    IN  /\ dom[caller.parent].children = b[caller.parent].children \o moved
        /\ dom[call.node].children = <<>>
        /\ Len(dom) = Len(b)
        /\ \A i \in 1..Len(moved) : ParentsOf(dom, moved[i]) = {caller.parent}

\* C8 as stated: fragment(children) returns a container holding exactly the given
\* children in the given order, for any child list, and appending it to a parent
\* moves them there.
C8_Original ==
    /\ FragmentHeld =>
        (dom[call.node].kind = "fragment" /\ ChildrenMatch(call.node, ChildrenOfFragmentCall))
    /\ FragmentAppended => ChildrenMoved

\* C8 as amended: the container holds exactly the given children in order when
\* no node occurs twice in the child list and none of them is a document
\* fragment; appending the container to a parent moves its children there.
C8_FragmentHoldsAndMoves ==
    /\ FragmentHeld =>
        /\ dom[call.node].kind = "fragment"
        /\ PlainChildList(ChildrenOfFragmentCall)
            => ChildrenMatch(call.node, ChildrenOfFragmentCall)
    /\ FragmentAppended => ChildrenMoved

\* fragment([span, em]) was appended to body: body holds span then em, the
\* fragment nothing
C8_Witness ==
    /\ FragmentAppended
    /\ ChildrenOfFragmentCall = <<NodeOf(2), NodeOf(4)>>
    /\ caller.beforeAppend[call.node].children = <<2, 4>>
    /\ caller.parent = 1
    /\ dom[1].children = <<2, 4>>
    /\ dom[call.node].children = <<>>

\* C2: rawHtml(markup) returns a fragment holding every top-level node the
\* parser produced, in parse order.
C2_RawHtmlHoldsAllNodes ==
    (call.fn = "rawHtml" /\ caller.parent = 0) =>
        dom[call.node].children = call.parsed

(***************************************************************************)
(* Properties of the tag functions, of failures, of the frame and of the   *)
(* order of the host calls.                                                *)
(***************************************************************************)
\* the call has just returned or thrown: the caller has not used the node yet
JustCalled == call.fn # "none" /\ caller = NoCaller

\* the recorded call made the host calls, left the tree and heap, and gave the
\* result of r
SameOutcome(r) ==
    /\ call.log = r.log
    /\ call.threw = r.threw
    /\ call.node = r.node
    /\ JustCalled => dom = r.dom

\* C11: tag(t)(...args) makes the same host calls, leaves the same tree and
\* returns the same as elem(t, ...args) for every tag and argument list, and
\* elem(t, ...args) is createElement(t, ...distinguishElemArgs(args)).
C11_TagIsElem ==
    /\ call.fn = "tag" =>
        LET r == elem(call.before, call.pre, call.tag, call.args)
        IN  SameOutcome(r) /\ call.ret = r.ret /\ call.post = r.heap
    /\ call.fn \in {"elem", "tag"} =>
        LET a == distinguishElemArgs(call.pre, call.args)
        IN  /\ call.ret = a.ret
            /\ call.post = a.heap
            /\ SameOutcome(createElement(call.before, a.heap, call.tag,
                                         a.ret[1], a.ret[2], a.ret[3]))

\* a tag function was called with properties, a listener and children
C11_Witness ==
    /\ call.fn = "tag"
    /\ JustCalled
    /\ Len(call.args) = 3
    /\ Len(call.log) = 4
    /\ call.node # 0
    /\ dom[call.node].children # <<>>

\* the element handed back by a call of elem or of a tag function is a new
\* element of the tag asked for
BuilderCall == call.fn \in {"elem", "tag"}
ReturnsNewElement ==
    /\ call.threw = "none"
    /\ call.node = Len(call.before) + 1
    /\ dom[call.node].kind = "element"
    /\ dom[call.node].tag = call.tag

\* C12: every failure of elem or createElement comes from a host primitive:
\* with a property map, a listener map (handlers, {handler, options} pairs,
\* keys present with the value undefined) and a child list, a call during which
\* no host call throws returns an element and throws nothing, and a call
\* during which a host call throws throws that same error.
C12_OnlyHostFailures ==
    BuilderCall =>
        LET raise == FirstRaise(call.log)
        IN  IF raise = 0
            THEN ReturnsNewElement
            ELSE call.threw = HostRaises(call.log[raise]) /\ call.node = 0

\* a call failed at a host primitive, and the failure reached the caller
C12_HostFailure ==
    /\ BuilderCall
    /\ call.threw = "SyntaxError"
    /\ Len(call.log) = 2

\* the nodes that exist since the call, and the elements among them
NewNodes == (Len(call.before) + 1)..Len(dom)
NewElements == {n \in NewNodes : dom[n].kind = "element"}
\* the children the call has appended: none if it threw before the append
Appended == IF call.threw = "none" THEN ChildrenGiven ELSE <<>>
\* exactly one element was made, and it is what the call returned if it returned
OneElementMade ==
    /\ NewElements = {Len(call.before) + 1}
    /\ call.threw = "none" => call.node = Len(call.before) + 1

\* C14 as stated: right after a call of elem or a tag function no node that
\* was there before has changed, whatever the child list, exactly one element
\* was made and it is the value returned.
C14_Original ==
    (BuilderCall /\ JustCalled) =>
        /\ \A n \in 1..Len(call.before) : dom[n] = call.before[n]
        /\ OneElementMade

\* the children n keeps when the nodes of items are appended elsewhere: a
\* child in items is moved away, and a fragment in items loses every child
KeptChildren(n, items) ==
    LET Stays(c) ==
            /\ NodeOf(c) \notin Range(items)
            /\ ~(call.before[n].kind = "fragment" /\ NodeOf(n) \in Range(items))
    IN  SelectSeq(call.before[n].children, Stays)

\* C14 (amended): right after a call of elem or a tag function every node that
\* was there before has its kind, tag, text, properties and listeners
\* unchanged and has gained no child; it has lost exactly the children that
\* were in the child list (all its children if it is a fragment in the child
\* list), which the append moved into the new element.  Exactly one element
\* was made, the other new nodes are the text nodes of the strings in the
\* child list, and the value returned is that element.
C14_FrameOfBuilder ==
    (BuilderCall /\ JustCalled) =>
        /\ \A n \in 1..Len(call.before) :
            dom[n] = [call.before[n] EXCEPT !.children = KeptChildren(n, Appended)]
        /\ OneElementMade
        /\ \A n \in NewNodes \ NewElements : dom[n].kind = "text"
        /\ Cardinality(NewNodes \ NewElements)
            = Cardinality({i \in 1..Len(Appended) : Appended[i].t = "string"})

\* elem was called with a child list holding the span that was a child of
\* body: body has lost it
C14_Witness ==
    /\ BuilderCall
    /\ JustCalled
    /\ call.threw = "none"
    /\ ChildrenGiven = <<NodeOf(2), Str("hi")>>
    /\ call.before[1].children = <<2>>
    /\ dom[1].children = <<>>
    /\ dom[call.node].children[1] = 2

\* the place of a host call in the order of the builder
Stage(c) ==
    CASE c.op = "createElement" -> 0
      [] c.op = "set" -> 1
      [] c.op = "addEventListener" -> 2
      [] c.op = "append" -> 3
CallsOf(op) == {i \in 1..Len(call.log) : call.log[i].op = op}

\* C15: the host calls of one createElement call come in a fixed order: the
\* element is created first, then come the property assignments, then the
\* listener registrations, then the one append, and then the return.  A
\* listener is registered only after every property is assigned, and the
\* children are appended only after every listener is registered.
C15_FixedOrder ==
    BuilderCall =>
        /\ CallsOf("createElement") = {1}
        /\ \A i, j \in 1..Len(call.log) :
            i < j => Stage(call.log[i]) <= Stage(call.log[j])
        /\ CallsOf("addEventListener") # {}
            => Cardinality(CallsOf("set")) = Len(PropsGiven)
        /\ CallsOf("append") # {}
            => Cardinality(CallsOf("addEventListener")) = Len(ListenersGiven)
        /\ Cardinality(CallsOf("append")) <= 1
        /\ call.node # 0 => CallsOf("append") = {Len(call.log)}

\* a call with two properties, two listeners and children has returned
C15_Witness ==
    /\ BuilderCall
    /\ call.node # 0
    /\ Len(PropsGiven) = 2
    /\ Len(ListenersGiven) = 2
    /\ Len(ChildrenGiven) = 2
    /\ Len(call.log) = 6

\* the registrations of the call, in the order they were made
Registrations == SelectSeq(call.log, LAMBDA c : c.op = "addEventListener")

\* C16: createElement makes exactly one addEventListener call per entry of the
\* listener map, with the key as the event name: a function is registered
\* with no options argument, any other entry with its handler field and its
\* options field; k entries give k registrations and an empty map gives none.
C16_OneRegistrationPerEntry ==
    (BuilderCall /\ FirstRaise(call.log) = 0) =>
        /\ Len(Registrations) = Len(ListenersGiven)
        /\ \A i \in 1..Len(Registrations) :
            LET l == ListenersGiven[i][2]
                c == Registrations[i]
            IN  /\ c.k = ListenersGiven[i][1]
                /\ IF l.t = "function"
                   THEN c.v = l /\ c.o = "absent"
                   ELSE c.v = HandlerOf(l) /\ c.o = OptionsOf(l)

\* C18: createElem of dom.ts and elem of elem.ts (createElement after
\* distinguishElemArgs) are equivalent: for every tag and every arg1, arg2,
\* arg3, each left out, an array or an object that is not an array, they
\* resolve the same triple, make the same host calls in the same order, leave
\* the same tree and return or throw the same.
C18_CreateElemIsElem ==
    call.fn = "createElem" =>
        LET r == elem(call.before, call.pre, call.tag, call.args)
        IN  /\ call.ret = r.ret
            /\ call.post = r.heap
            /\ SameOutcome(r)

\* createElem was called with an object and two arrays, and returned
C18_Witness ==
    /\ call.fn = "createElem"
    /\ JustCalled
    /\ call.args = <<Ref(3), Ref(1), Ref(2)>>
    /\ call.ret = <<Ref(3), Ref(7), Ref(2)>>
    /\ Len(call.log) = 4
    /\ dom[call.node].children # <<>>

\* the property assignments of the call, in the order they were made
Assignments == SelectSeq(call.log, LAMBDA c : c.op = "set")

\* C19: a property entry that is present with the value undefined is assigned
\* like any other, not passed over: when no assignment fails, there are as many
\* assignments as the property map has keys, the i-th one assigns the value
\* of the i-th key to it, and the element returned has every key set.
C19_UndefinedIsAssigned ==
    (BuilderCall /\ FirstRaise(call.log) = 0) =>
        /\ Len(Assignments) = Len(PropsGiven)
        /\ \A i \in 1..Len(Assignments) :
            /\ Assignments[i].k = PropsGiven[i][1]
            /\ Assignments[i].v = PropsGiven[i][2]
        /\ call.node # 0 =>
            \A i \in 1..Len(PropsGiven) : PropsGiven[i] \in Range(dom[call.node].props)

\* elem(t, {hidden: undefined}) has returned an element whose hidden property
\* was assigned undefined
C19_Witness ==
    /\ BuilderCall
    /\ call.node # 0
    /\ PropsGiven = << <<"hidden", UndefV>> >>
    /\ Len(Assignments) = 1
    /\ Assignments[1].v = UndefV
    /\ dom[call.node].props = << <<"hidden", UndefV>> >>

\* s holds no value twice and its values are values of t, in the order of t
IsSubSeq(s, t) ==
    \E f \in [1..Len(s) -> 1..Len(t)] :
        /\ \A i \in 1..Len(s) : s[i] = t[f[i]]
        /\ \A i, j \in 1..Len(s) : i < j => f[i] < f[j]
NoneTwice(s) == \A i, j \in 1..Len(s) : i # j => s[i] # s[j]

\* C20: the loop of rawHtml over the live child list ends for every number of
\* parsed nodes, and the fragment holds, during the loop and when it is
\* returned, no node twice, only nodes parsed from the markup, and these in
\* the order in which they were parsed.
C20_LoopEndsInOrder ==
    /\ [](pc \in {"loop", "returned"} =>
            /\ NoneTwice(dom[call.node].children)
            /\ IsSubSeq(dom[call.node].children, call.parsed))
    /\ (pc = "loop") ~> (pc = "returned")

\* rawHtml has returned for a markup of three nodes, after two turns
C20_Witness ==
    /\ pc = "returned"
    /\ Len(call.parsed) = 3
    /\ call.i = 2
    /\ dom[call.node].children = <<call.parsed[1], call.parsed[3]>>

====
